---- MODULE Spec2Model ----
(***************************************************************************)
(* The package source adapter of pipgrip (src/pipgrip/package_source.py):  *)
(* the cache _packages (name -> version -> None | list of Dependency), the *)
(* root dependency list, and the operations add, discover_and_add,         *)
(* root_dep, _versions_for and dependencies_for.                           *)
(*                                                                         *)
(* Strings are sequences of tokens.  A token is a run of name characters   *)
(* (NameTok), one comparator+version clause (SpecTok) or text that no      *)
(* requirement grammar accepts (JunkTok).  Package identifiers are         *)
(* sequences of name fragments, so that "package + str(constraint)" is     *)
(* concatenation and pkg_resources' parser decides where the name ends.    *)
(***************************************************************************)
EXTENDS Integers, Sequences, FiniteSets, TLC

VARIABLES packages, root_dependencies, root_version, nops, last, lookups,
          depLookups, absent, declared

vars == <<packages, root_dependencies, root_version, nops, last, lookups,
          depLookups, absent, declared>>

\* ------------------------------------------------------------------ bounds
\* Versions are 1..MaxVersion (version n stands for n.0.0).
MaxVersion == 2
\* Number of adapter operations in one behaviour of Spec.
MaxOps == 3
\* Number of adapter operations in one behaviour of RunSpec.
MaxRunOps == 4

Versions == 1..MaxVersion

\* ------------------------------------------------------------------ tokens
NameTok(s) == [t |-> "name", s |-> s, op |-> "", ver |-> 0]
SpecTok(op, v) == [t |-> "spec", s |-> "", op |-> op, ver |-> v]
JunkTok == [t |-> "junk", s |-> "", op |-> "", ver |-> 0]

\* str(package): the characters of a package identifier.
NameText(name) == [i \in 1..Len(name) |-> NameTok(name[i])]

\* The package identifiers the engine and the tests hand to the adapter.
Names == {<<"a">>, <<"A">>}
\* self.root: the synthetic root package.
Root == <<"_root_">>

\* str.lower() on a run of name characters (req.key is the lowered name).
Lower(s) ==
  CASE s = "A" -> "a"
    [] s = "B" -> "b"
    [] s = "None" -> "none"
    [] OTHER -> s

\* -------------------------------------------------------- version strings
\* A version string is its number and its spelling: "1" (short), "1.0.0"
\* (full), or text that is no version (bad).
VStr(n) == [num |-> n, form |-> "full"]
VersionStrings ==
  {VStr(n) : n \in Versions}
    \cup {[num |-> 1, form |-> "short"], [num |-> 0, form |-> "bad"]}

\* Version.parse: fails on malformed text; "1" and "1.0.0" are one Version.
VersionOk(vstr) == vstr.form # "bad"
VersionParse(vstr) == vstr.num

\* _root_version = Version.parse("0.0.0")
RootVersion == VersionParse([num |-> 0, form |-> "full"])

\* ------------------------------------------------------------ requirements
Min(S) == CHOOSE x \in S : \A y \in S : x <= y
Max(S) == CHOOSE x \in S : \A y \in S : x >= y

\* pkg_resources.Requirement.parse: the name is the longest prefix of name
\* characters; what follows must be comparator+version clauses.
ReqParse(text) ==
  LET stops == {i \in 1..Len(text) : text[i].t # "name"}
      n == IF stops = {} THEN Len(text) ELSE Min(stops) - 1
      rest == SubSeq(text, n + 1, Len(text))
  IN IF n = 0 \/ (\E i \in 1..Len(rest) : rest[i].t # "spec")
     THEN [ok |-> FALSE, name |-> <<>>, key |-> <<>>, specs |-> <<>>]
     ELSE [ok |-> TRUE,
           name |-> [i \in 1..n |-> text[i].s],
           key |-> [i \in 1..n |-> Lower(text[i].s)],
           specs |-> rest]

\* Requirement.__str__: the name as written, then the clauses.
ReqStr(req) == NameText(req.name) \o req.specs

\* Dependency(name, constraint): constraint is the comma-joined clauses.
Dependency(name, constraint) ==
  [name |-> name, pretty_constraint |-> constraint]

\* ------------------------------------------------------------- constraints
\* A constraint handed to versions_for is absent (None) or a Range; a bound
\* of 0 is an absent bound.
NoConstraint == [absent |-> TRUE, min |-> 0, max |-> 0,
                 include_min |-> FALSE, include_max |-> FALSE]
Range(min, max, include_min, include_max) ==
  [absent |-> FALSE, min |-> min, max |-> max,
   include_min |-> include_min, include_max |-> include_max]

\* The constraints the engine asks with: none, ">=1", ">1", "<=1", and
\* ">=1,<MaxVersion".
ConstraintInputs ==
  {NoConstraint,
   Range(1, 0, TRUE, FALSE),
   Range(1, 0, FALSE, FALSE),
   Range(0, 1, FALSE, TRUE),
   Range(1, MaxVersion, TRUE, FALSE)}

\* str(constraint): "None" for the absent constraint, else the clauses.
ConstraintStr(c) ==
  IF c.absent THEN <<NameTok("None")>>
  ELSE (IF c.min = 0 THEN <<>>
        ELSE <<SpecTok(IF c.include_min THEN ">=" ELSE ">", c.min)>>)
       \o
       (IF c.max = 0 THEN <<>>
        ELSE <<SpecTok(IF c.include_max THEN "<=" ELSE "<", c.max)>>)

\* Range.allows_any: the two intervals intersect, honouring the boundaries.
StrictlyBelow(a, b) ==
  /\ a.max # 0
  /\ b.min # 0
  /\ \/ a.max < b.min
     \/ a.max = b.min /\ ~(a.include_max /\ b.include_min)

allows_any(a, b) == ~StrictlyBelow(a, b) /\ ~StrictlyBelow(b, a)


\* ------------------------------------------------ Dependency.constraint
\* semver's VersionRange; a bound of 0 is an absent bound.
VersionRange(min, max, include_min, include_max) ==
  [type |-> "VersionRange", min |-> min, max |-> max,
   include_min |-> include_min, include_max |-> include_max]
\* semver's VersionUnion: its member ranges in ascending order.
VersionUnion(ranges) == [type |-> "VersionUnion", ranges |-> ranges]

\* One clause of a constraint string as its list of ranges ("!=" has two).
ParseClause(tok) ==
  IF tok.op = "==" THEN <<VersionRange(tok.ver, tok.ver, TRUE, TRUE)>>
  ELSE IF tok.op = ">=" THEN <<VersionRange(tok.ver, 0, TRUE, FALSE)>>
  ELSE IF tok.op = ">" THEN <<VersionRange(tok.ver, 0, FALSE, FALSE)>>
  ELSE IF tok.op = "<=" THEN <<VersionRange(0, tok.ver, FALSE, TRUE)>>
  ELSE IF tok.op = "<" THEN <<VersionRange(0, tok.ver, FALSE, FALSE)>>
  ELSE <<VersionRange(0, tok.ver, FALSE, FALSE),
         VersionRange(tok.ver, 0, FALSE, FALSE)>>

\* VersionRange.intersect: the larger lower bound and the smaller upper one.
IntersectRange(a, b) ==
  LET lowA == b.min = 0 \/ (a.min # 0 /\ (a.min > b.min
                \/ (a.min = b.min /\ ~a.include_min)))
      highA == b.max = 0 \/ (a.max # 0 /\ (a.max < b.max
                \/ (a.max = b.max /\ ~a.include_max)))
  IN VersionRange(IF lowA THEN a.min ELSE b.min,
                  IF highA THEN a.max ELSE b.max,
                  IF lowA THEN a.include_min ELSE b.include_min,
                  IF highA THEN a.include_max ELSE b.include_max)

\* a range that allows no version
IsEmptyRange(r) ==
  /\ r.min # 0
  /\ r.max # 0
  /\ \/ r.min > r.max
     \/ (r.min = r.max /\ ~(r.include_min /\ r.include_max))

RECURSIVE IntersectEach(_, _, _)
\* the members of rs cut by b, from member i on, without the empty ones
IntersectEach(rs, b, i) ==
  IF i > Len(rs) THEN <<>>
  ELSE (IF IsEmptyRange(IntersectRange(rs[i], b)) THEN <<>>
        ELSE <<IntersectRange(rs[i], b)>>)
       \o IntersectEach(rs, b, i + 1)

RECURSIVE IntersectAll(_, _, _)
\* the ranges rs cut by every member of bs, from member j on, in order
IntersectAll(rs, bs, j) ==
  IF j > Len(bs) THEN <<>>
  ELSE IntersectEach(rs, bs[j], 1) \o IntersectAll(rs, bs, j + 1)

RECURSIVE ParseClauses(_, _, _)
\* the comma-joined clauses from clause i on, intersected into acc
ParseClauses(specs, i, acc) ==
  IF i > Len(specs) THEN acc
  ELSE ParseClauses(specs, i + 1, IntersectAll(acc, ParseClause(specs[i]), 1))

\* parse_constraint(constraint or "*"): one range, or a union of ranges.
ParseConstraint(specs) ==
  LET rs == ParseClauses(specs, 1, <<VersionRange(0, 0, FALSE, FALSE)>>)
  IN IF Len(rs) = 1 THEN rs[1] ELSE VersionUnion(rs)

\* str(range): the clauses of one VersionRange.
VersionRangeStr(r) ==
  IF r.min # 0 /\ r.min = r.max THEN <<SpecTok("==", r.min)>>
  ELSE (IF r.min = 0 THEN <<>>
        ELSE <<SpecTok(IF r.include_min THEN ">=" ELSE ">", r.min)>>)
       \o
       (IF r.max = 0 THEN <<>>
        ELSE <<SpecTok(IF r.include_max THEN "<=" ELSE "<", r.max)>>)

\* Dependency.constraint, line 19, read off the Dependency's raw constraint.
DependencyConstraint(dependency) ==
  ParseConstraint(dependency.pretty_constraint)

\* ------------------------------------------------------ convert_dependency
\* mixology's Range built with its label.
RangeWithString(min, max, include_min, include_max, string) ==
  [absent |-> FALSE, min |-> min, max |-> max, include_min |-> include_min,
   include_max |-> include_max, string |-> string]
\* mixology's Union and Constraint.
Union(ranges) == [ranges |-> ranges]
Constraint(package, constraint) ==
  [package |-> package, constraint |-> constraint]
IsUnion(c) == "ranges" \in DOMAIN c

\* a comes before b in the order of ranges: by lower bound, then by upper.
RangeBefore(a, b) ==
  \/ a.min < b.min
  \/ (a.min = b.min /\ a.include_min /\ ~b.include_min)
  \/ (a.min = b.min /\ a.include_min = b.include_min /\ b.max = 0)
  \/ (a.min = b.min /\ a.include_min = b.include_min /\ a.max # 0
        /\ a.max <= b.max)

RECURSIVE InsertRange(_, _)
InsertRange(sorted, r) ==
  IF sorted = <<>> THEN <<r>>
  ELSE IF RangeBefore(r, Head(sorted)) THEN <<r>> \o sorted
  ELSE <<Head(sorted)>> \o InsertRange(Tail(sorted), r)

RECURSIVE SortRanges(_)
SortRanges(ranges) ==
  IF ranges = <<>> THEN <<>>
  ELSE InsertRange(SortRanges(Tail(ranges)), Head(ranges))

\* two ranges, a before b, that overlap or touch
Touching(a, b) ==
  \/ ~StrictlyBelow(a, b)
  \/ (a.max = b.min /\ (a.include_max \/ b.include_min))

\* the range from the start of a to the later end of a and b
MergeRanges(a, b) ==
  LET endB == a.max # 0 /\ (b.max = 0 \/ b.max > a.max
                \/ (b.max = a.max /\ b.include_max))
  IN [a EXCEPT !.max = IF endB THEN b.max ELSE a.max,
               !.include_max = IF endB THEN b.include_max ELSE a.include_max]

RECURSIVE MergeSorted(_)
MergeSorted(sorted) ==
  IF Len(sorted) < 2 THEN sorted
  ELSE IF Touching(sorted[1], sorted[2])
  THEN MergeSorted(<<MergeRanges(sorted[1], sorted[2])>>
                   \o SubSeq(sorted, 3, Len(sorted)))
  ELSE <<sorted[1]>> \o MergeSorted(Tail(sorted))

\* Union.of: sorts, merges overlapping and adjacent ranges; one range left
\* is returned as that range.
UnionOf(ranges) ==
  LET merged == MergeSorted(SortRanges(ranges))
  IN IF Len(merged) = 1 THEN merged[1] ELSE Union(merged)

\* convert_dependency turning every bound into an inclusive one
ConvertRangeWidened(r, string) ==
  RangeWithString(r.min, r.max, TRUE, TRUE, string)

\* lines 171-177 and 181-187: Range(min, max, include_min, include_max, label)
ConvertRange(r, string) ==
  RangeWithString(r.min, r.max, r.include_min, r.include_max, string)

\* lines 180-189: one Range per member of the union, labelled str(range).
ConvertRanges(ranges) ==
  [i \in 1..Len(ranges) |-> ConvertRange(ranges[i], VersionRangeStr(ranges[i]))]

\* PackageSource.convert_dependency
convert_dependency(dependency) ==
  IF DependencyConstraint(dependency).type = "VersionRange"
  THEN Constraint(dependency.name,
                  ConvertRange(DependencyConstraint(dependency),
                               dependency.pretty_constraint))
  ELSE Constraint(dependency.name,
                  UnionOf(ConvertRanges(DependencyConstraint(dependency).ranges)))

\* -------------------------------------------------- the discovery collaborator
\* The package index behind discover_dependencies_and_versions.
IndexPkgs == {<<"a">>, <<"b">>, <<"a", "none">>}
IndexVersions(key) == IF key = <<"a">> THEN Versions ELSE {1}
IndexRequires(key, v) ==
  IF key = <<"a">> /\ v > 1
  THEN << <<NameTok("B"), SpecTok(">=", 1)>> >>
  ELSE <<>>

Satisfies(v, clause) ==
  CASE clause.op = "==" -> v = clause.ver
    [] clause.op = "!=" -> v # clause.ver
    [] clause.op = ">=" -> v >= clause.ver
    [] clause.op = "<=" -> v <= clause.ver
    [] clause.op = ">" -> v > clause.ver
    [] clause.op = "<" -> v < clause.ver
    [] OTHER -> FALSE

SortAsc(S) ==
  CHOOSE s \in [1..Cardinality(S) -> S] :
    \A i, j \in 1..Cardinality(S) : i < j => s[i] < s[j]

\* The versions of the package req names that satisfy every clause of req.
Candidates(req) ==
  IF req.ok /\ req.key \in IndexPkgs
  THEN {v \in IndexVersions(req.key) :
          \A i \in 1..Len(req.specs) : Satisfies(v, req.specs[i])}
  ELSE {}

Available(all) == [i \in 1..Len(all) |-> VStr(all[i])]

NotFound ==
  [ok |-> FALSE, available |-> <<>>, version |-> VStr(0), requires |-> <<>>]

\* The answer for the chosen version: every version of the package, the
\* version chosen and its requirement strings.
Found(key, best) ==
  [ok |-> TRUE,
   available |-> Available(SortAsc(IndexVersions(key))),
   version |-> VStr(best),
   requires |-> IndexRequires(key, best)]

\* The highest candidate is chosen; no candidate, or no network: a failure.
Chosen(key, cands, net) ==
  IF ~net \/ cands = {} THEN NotFound ELSE Found(key, Max(cands))

DiscoverReq(req, net) == Chosen(req.key, Candidates(req), net)

\* discover(spec, ...) -> {available, version, requires}, or a failure
\* (net = FALSE: the network fails; no package or no version matches).
Discover(text, net) == DiscoverReq(ReqParse(text), net)

\* ------------------------------------------------------------------- cache
\* A cache entry: None ("dependencies unknown") or a list of Dependency.
Unknown == [known |-> FALSE, deps |-> <<>>]
Known(list) == [known |-> TRUE, deps |-> list]
EmptyMap == [v \in {} |-> Unknown]

\* The deps argument of add: None, or a list of requirement strings.
NoDeps == [isNone |-> TRUE, list |-> <<>>]
DepsList(list) == [isNone |-> FALSE, list |-> list]

Put(pk, name, version, entry) ==
  [pk EXCEPT ![name] = (version :> entry) @@ pk[name]]

\* add without its duplicate check
NeverExists(pk, name, version, deps) == FALSE

\* line 94-96: the version exists, deps are given and the entry is not None.
AlreadyExists(pk, name, version, deps) ==
  /\ version \in DOMAIN pk[name]
  /\ ~(deps.isNone \/ ~pk[name][version].known)

\* lines 106-108: one requirement string to one Dependency.
ToDependency(req) == Dependency(req.key, req.specs)

\* the Dependency list built back to front
ParseDepsReversed(list) ==
  [i \in 1..Len(list) |-> ToDependency(ReqParse(list[Len(list) + 1 - i]))]

\* lines 104-108: the Dependency list of the requirement strings, in order.
ParseDeps(list) == [i \in 1..Len(list) |-> ToDependency(ReqParse(list[i]))]

\* lines 90-91: the package gets an empty version map when it is new.
WithPackage(pk, name) ==
  IF name \in DOMAIN pk THEN pk ELSE (name :> EmptyMap) @@ pk

\* add replacing the package's version map by the one new entry
SetOnlyUnknown(pk, name, version) ==
  [pk EXCEPT ![name] = (version :> Unknown)]

\* lines 100-102: deps is None: the entry is set to None.
SetUnknown(pk, name, version) == Put(pk, name, version, Unknown)

\* lines 93-110, on the cache that holds the package.
Register(pk1, name, version, deps) ==
  IF AlreadyExists(pk1, name, version, deps)
  THEN [packages |-> pk1, err |-> "ValueError"]
  ELSE IF deps.isNone
  THEN [packages |-> SetUnknown(pk1, name, version), err |-> "none"]
  ELSE IF \E i \in 1..Len(deps.list) : ~ReqParse(deps.list[i]).ok
  THEN [packages |-> pk1, err |-> "ParseError"]
  ELSE [packages |-> Put(pk1, name, version, Known(ParseDeps(deps.list))),
        err |-> "none"]

\* PackageSource.add; the result is the cache and the exception raised.
add(pk, name, vstr, deps) ==
  IF ~VersionOk(vstr) THEN [packages |-> pk, err |-> "ParseError"]
  ELSE Register(WithPackage(pk, name), name, VersionParse(vstr), deps)

\* lines 118-119: add(req.key, version) for each available version, in order.
RECURSIVE AddAvailable(_, _, _, _)
AddNext(r, key, available, i) ==
  IF r.err # "none" THEN r
  ELSE AddAvailable(r.packages, key, available, i + 1)

AddAvailable(pk, key, available, i) ==
  IF i > Len(available) THEN [packages |-> pk, err |-> "none"]
  ELSE AddNext(add(pk, key, available[i], NoDeps), key, available, i)

\* What discover_and_add hands back: the cache, the exception, the number
\* of external calls made, whether the call returned a result, the key
\* req.key and the string the collaborator was called with.
Outcome(r, key, ncalls, found, spec) ==
  [packages |-> r.packages, err |-> r.err, ncalls |-> ncalls,
   found |-> found, key |-> key, spec |-> spec]

\* lines 120-122: add(req.key, to_create["version"], deps=requires)
AddChosen(r1, key, to_create) ==
  IF r1.err # "none" THEN r1
  ELSE add(r1.packages, key, to_create.version, DepsList(to_create.requires))

\* discover_and_add with the collaborator's failure caught and dropped
CreateSwallows(pk, key, package, to_create) ==
  IF ~to_create.ok
  THEN Outcome([packages |-> pk, err |-> "none"], key, 1, FALSE, package)
  ELSE Outcome(AddChosen(AddAvailable(pk, key, to_create.available, 1),
                         key, to_create),
               key, 1, TRUE, package)

\* lines 118-122
Create(pk, key, package, to_create) ==
  IF ~to_create.ok
  THEN Outcome([packages |-> pk, err |-> "CollaboratorError"],
               key, 1, FALSE, package)
  ELSE Outcome(AddChosen(AddAvailable(pk, key, to_create.available, 1),
                         key, to_create),
               key, 1, TRUE, package)

\* lines 114-122, the requirement string parsed
DiscoverAndAddReq(pk, req, package, net) ==
  IF ~req.ok
  THEN Outcome([packages |-> pk, err |-> "ParseError"], <<>>, 0, FALSE, <<>>)
  ELSE Create(pk, req.key, package, Discover(package, net))

\* PackageSource.discover_and_add
discover_and_add(pk, package, net) ==
  DiscoverAndAddReq(pk, ReqParse(package), package, net)

\* a discover_and_add that was not called
NoDiscovery(pk) ==
  Outcome([packages |-> pk, err |-> "none"], <<>>, 0, FALSE, <<>>)

\* _versions_for without its "package not in self._packages" test
AlwaysDiscovers(pk, package) == TRUE

\* line 139: discovery is needed when the package is not a key of the cache.
NeedsDiscovery(pk, package) == package \notin DOMAIN pk

\* _versions_for without line 143-144: self._packages[package] raises
UnknownRaises == [err |-> "KeyError", ret |-> <<>>]

\* lines 143-144: still unknown after discovery: the empty list, no error.
UnknownAnswer == [err |-> "none", ret |-> <<>>]

\* the answer computed before discovery has registered anything
AnswerFromBefore(before, after) == before

\* lines 143-151 read self._packages after discover_and_add has returned.
AnswerFrom(before, after) == after

\* the filter of line 148 left out
MatchesEverything(constraint, version) == TRUE

\* line 148: "not constraint or constraint.allows_any(Range(v, v, True, True))"
Matches(constraint, version) ==
  constraint.absent \/ allows_any(constraint, Range(version, version, TRUE, TRUE))

\* lines 146-151: the versions of the package that the constraint admits.
MatchingVersions(pk, package, constraint) ==
  {version \in DOMAIN pk[package] : Matches(constraint, version)}

\* line 153: sorted(versions, reverse=True)
SortedReverse(S) ==
  CHOOSE s \in [1..Cardinality(S) -> S] :
    \A i, j \in 1..Cardinality(S) : i < j => s[i] > s[j]

\* line 141: package + str(constraint).replace("||", "|").replace(" ", "");
\* a Range's text holds neither "||" nor a space.
VersionsSpec(package, constraint) ==
  NameText(package) \o ConstraintStr(constraint)

\* lines 143-153: the answer computed from the cache src.
Select(src, package, constraint) ==
  IF package \notin DOMAIN src THEN UnknownAnswer
  ELSE [err |-> "none",
        ret |-> SortedReverse(MatchingVersions(src, package, constraint))]

VersionsAnswer(d, ans) ==
  [packages |-> d.packages, err |-> ans.err, ret |-> ans.ret,
   ncalls |-> d.ncalls, found |-> d.found, key |-> d.key, spec |-> d.spec]

\* lines 143-153, d being what lines 139-142 did
VersionsAfter(pk, package, constraint, d) ==
  VersionsAnswer(d, IF d.err # "none" THEN [err |-> d.err, ret |-> <<>>]
                    ELSE Select(AnswerFrom(pk, d.packages), package, constraint))

\* PackageSource._versions_for
versions_for(pk, package, constraint, net) ==
  VersionsAfter(pk, package, constraint,
                IF NeedsDiscovery(pk, package)
                THEN discover_and_add(pk, VersionsSpec(package, constraint), net)
                ELSE NoDiscovery(pk))

\* line 161: package + "==" + str(version)
DependenciesSpec(package, version) ==
  NameText(package) \o <<SpecTok("==", version)>>

\* line 159: the entry is None, so its dependencies must be discovered.
NeedsPopulation(pk, package, version) == ~pk[package][version].known

\* line 162: return self._packages[package][version]
Returned(d, entry) ==
  [packages |-> d.packages, err |-> d.err,
   ret |-> IF d.err = "none" THEN entry.deps ELSE <<>>,
   retNone |-> d.err = "none" /\ ~entry.known,
   ncalls |-> d.ncalls, found |-> d.found, key |-> d.key, spec |-> d.spec]

DependenciesAfter(package, version, d) ==
  Returned(d, d.packages[package][version])

\* dependencies_for without its test for the root: self._packages[root]
RootAnswerMissing(pk, rootdeps) ==
  [packages |-> pk, err |-> "KeyError", ret |-> <<>>, retNone |-> FALSE,
   ncalls |-> 0, found |-> FALSE, key |-> <<>>, spec |-> <<>>]

\* dependencies_for that looks the root up like any other package
RootAnswerDiscovers(pk, rootdeps) ==
  [packages |-> pk, err |-> "CollaboratorError", ret |-> <<>>,
   retNone |-> FALSE, ncalls |-> 1, found |-> FALSE, key |-> Root,
   spec |-> NameText(Root)]

\* lines 156-157: return self._root_dependencies
RootAnswer(pk, rootdeps) ==
  [packages |-> pk, err |-> "none", ret |-> rootdeps, retNone |-> FALSE,
   ncalls |-> 0, found |-> FALSE, key |-> <<>>, spec |-> <<>>]

\* PackageSource.dependencies_for; retNone tells that None was returned.
dependencies_for(pk, rootdeps, package, version, net) ==
  IF package = Root
  THEN RootAnswer(pk, rootdeps)
  ELSE IF package \notin DOMAIN pk \/ version \notin DOMAIN pk[package]
  THEN [packages |-> pk, err |-> "KeyError", ret |-> <<>>, retNone |-> FALSE,
        ncalls |-> 0, found |-> FALSE, key |-> <<>>, spec |-> <<>>]
  ELSE DependenciesAfter(package, version,
         IF NeedsPopulation(pk, package, version)
         THEN discover_and_add(pk, DependenciesSpec(package, version), net)
         ELSE NoDiscovery(pk))

\* root_dep recording the name as written instead of req.key
RootDepReqAsWritten(pk, rootdeps, req, d) ==
  [packages |-> d.packages,
   root_dependencies |-> Append(rootdeps, Dependency(req.name, req.specs)),
   err |-> d.err, ncalls |-> d.ncalls, found |-> d.found, key |-> d.key,
   spec |-> d.spec]

\* lines 127-128: the Dependency is appended, then discovery runs.
RootDepReq(pk, rootdeps, req, d) ==
  [packages |-> d.packages,
   root_dependencies |-> Append(rootdeps, ToDependency(req)),
   err |-> d.err, ncalls |-> d.ncalls, found |-> d.found, key |-> d.key,
   spec |-> d.spec]

\* PackageSource.root_dep
root_dep(pk, rootdeps, package, net) ==
  IF ~ReqParse(package).ok
  THEN [packages |-> pk, root_dependencies |-> rootdeps,
        err |-> "ParseError", ncalls |-> 0, found |-> FALSE, key |-> <<>>,
        spec |-> <<>>]
  ELSE RootDepReq(pk, rootdeps, ReqParse(package),
                  discover_and_add(pk, ReqStr(ReqParse(package)), net))

\* ------------------------------------------------------------ observation
\* The state of the entry (package, version) in a cache.
EntryState(pk, package, version) ==
  IF package \notin DOMAIN pk THEN "nopackage"
  ELSE IF version \notin DOMAIN pk[package] THEN "noversion"
  ELSE IF pk[package][version].known THEN "known"
  ELSE "unknown"

\* The last operation: its arguments, what it returned or raised, the number
\* of external calls it made (found: the call returned a result; spec: the
\* string it was called with), and what the cache held when it began
\* (cached: the package was a key; entry: the state of (package, version)).
NoCall ==
  [op |-> "init", package |-> <<>>, version |-> 0,
   constraint |-> NoConstraint, deps |-> NoDeps, text |-> <<>>,
   err |-> "none", ret |-> <<>>, retNone |-> FALSE, ncalls |-> 0,
   found |-> FALSE, key |-> <<>>, spec |-> <<>>, cached |-> FALSE,
   entry |-> "nopackage", dependency |-> Dependency(<<>>, <<>>),
   converted |-> Constraint(<<>>, <<>>)]

Bump(f, k, n) ==
  IF n = 0 THEN f
  ELSE IF k \in DOMAIN f THEN [f EXCEPT ![k] = @ + n]
  ELSE (k :> n) @@ f

Count(f, k) == IF k \in DOMAIN f THEN f[k] ELSE 0

\* 1 when the operation's discovery call returned a result, else 0.
Completed(r) == IF r.found THEN 1 ELSE 0

\* --------------------------------------------------------------- the inputs
DepsInputs ==
  {NoDeps,
   DepsList(<<>>),
   DepsList(<< <<NameTok("B")>>, <<NameTok("a"), SpecTok(">=", 1)>> >>),
   DepsList(<< <<JunkTok>> >>)}

\* The dependencies the engine converts: "a", "a>=1,<MaxVersion", "a!=1",
\* "b==1" and "b>1,<=MaxVersion".
ConvertInputs ==
  {Dependency(<<"a">>, <<>>),
   Dependency(<<"a">>, <<SpecTok(">=", 1), SpecTok("<", MaxVersion)>>),
   Dependency(<<"a">>, <<SpecTok("!=", 1)>>),
   Dependency(<<"b">>, <<SpecTok("==", 1)>>),
   Dependency(<<"b">>, <<SpecTok(">", 1), SpecTok("<=", MaxVersion)>>)}

RootTexts ==
  {<<NameTok("a")>>,
   <<NameTok("A"), SpecTok("==", 1)>>,
   <<JunkTok>>}

\* ------------------------------------------------------------------ actions
Init ==
  /\ packages = [n \in {} |-> EmptyMap]
  /\ root_dependencies = <<>>
  /\ root_version = RootVersion
  /\ nops = 0
  /\ last = NoCall
  /\ lookups = [k \in {} |-> 0]
  /\ depLookups = [k \in {} |-> 0]
  /\ absent = {}
  /\ declared = <<>>

AddOp(budget) ==
  /\ nops < budget
  /\ \E name \in Names, vstr \in VersionStrings, deps \in DepsInputs :
       \E r \in {add(packages, name, vstr, deps)} :
          /\ packages' = r.packages
          /\ last' = [NoCall EXCEPT !.op = "add", !.package = name,
                        !.version = VersionParse(vstr), !.deps = deps,
                        !.err = r.err,
                        !.cached = name \in DOMAIN packages,
                        !.entry = EntryState(packages, name, VersionParse(vstr))]
  /\ nops' = nops + 1
  /\ UNCHANGED <<root_dependencies, root_version, lookups, depLookups, absent,
                 declared>>

RootDepOp(budget) ==
  /\ nops < budget
  /\ \E text \in RootTexts, net \in BOOLEAN :
       \E r \in {root_dep(packages, root_dependencies, text, net)} :
          /\ packages' = r.packages
          /\ root_dependencies' = r.root_dependencies
          /\ declared' = IF ReqParse(text).ok THEN Append(declared, text)
                         ELSE declared
          /\ lookups' = Bump(lookups, r.key, Completed(r))
          /\ last' = [NoCall EXCEPT !.op = "root_dep", !.text = text,
                        !.err = r.err, !.ncalls = r.ncalls, !.found = r.found,
                        !.key = r.key, !.spec = r.spec]
  /\ nops' = nops + 1
  /\ UNCHANGED <<root_version, depLookups, absent>>

VersionsForOp(budget) ==
  /\ nops < budget
  /\ \E package \in Names, constraint \in ConstraintInputs, net \in BOOLEAN :
       \E r \in {versions_for(packages, package, constraint, net)} :
          /\ packages' = r.packages
          /\ lookups' = Bump(lookups, r.key, Completed(r))
          /\ absent' = IF r.found /\ r.err = "none"
                          /\ package \notin DOMAIN r.packages
                       THEN absent \cup {package} ELSE absent
          /\ last' = [NoCall EXCEPT !.op = "versions_for", !.package = package,
                        !.constraint = constraint, !.err = r.err,
                        !.ret = r.ret, !.ncalls = r.ncalls, !.found = r.found,
                        !.key = r.key, !.spec = r.spec,
                        !.cached = package \in DOMAIN packages]
  /\ nops' = nops + 1
  /\ UNCHANGED <<root_dependencies, root_version, depLookups, declared>>

DependenciesForOp(budget) ==
  /\ nops < budget
  /\ \E package \in Names \cup {Root}, version \in Versions, net \in BOOLEAN :
       \E r \in {dependencies_for(packages, root_dependencies, package,
                                  version, net)} :
          /\ packages' = r.packages
          /\ lookups' = Bump(lookups, r.key, Completed(r))
          /\ depLookups' = Bump(depLookups, <<package, version>>, Completed(r))
          /\ last' = [NoCall EXCEPT !.op = "dependencies_for",
                        !.package = package, !.version = version,
                        !.err = r.err, !.ret = r.ret, !.retNone = r.retNone,
                        !.ncalls = r.ncalls, !.found = r.found, !.key = r.key,
                        !.spec = r.spec,
                        !.cached = package \in DOMAIN packages,
                        !.entry = EntryState(packages, package, version)]
  /\ nops' = nops + 1
  /\ UNCHANGED <<root_dependencies, root_version, absent, declared>>

\* Any adapter operation, MaxOps of them.
ConvertDependencyOp(budget) ==
  /\ nops < budget
  /\ \E dependency \in ConvertInputs :
       \E r \in {convert_dependency(dependency)} :
          last' = [NoCall EXCEPT !.op = "convert_dependency",
                                 !.dependency = dependency,
                                 !.converted = r]
  /\ nops' = nops + 1
  /\ UNCHANGED <<packages, root_dependencies, root_version, lookups,
                 depLookups, absent, declared>>

Next ==
  \/ AddOp(MaxOps)
  \/ RootDepOp(MaxOps)
  \/ VersionsForOp(MaxOps)
  \/ DependenciesForOp(MaxOps)
  \/ ConvertDependencyOp(MaxOps)

Spec == Init /\ [][Next]_vars

\* The operations of a resolution run (the cache is filled by discovery
\* alone), MaxRunOps of them.
RunNext ==
  \/ RootDepOp(MaxRunOps)
  \/ VersionsForOp(MaxRunOps)
  \/ DependenciesForOp(MaxRunOps)

RunSpec == Init /\ [][RunNext]_vars

\* ------------------------------------------------------------------ claims
Elems(seq) == {seq[i] : i \in 1..Len(seq)}

\* C1: on one adapter, the calls dependencies_for(P, V) for one non-root
\* (P, V) trigger at most one external discovery call in total, whatever runs
\* between them.  depLookups counts, per (P, V), the discovery calls that
\* dependencies_for(P, V) triggered and that returned a result, so a call
\* repeated after a collaborator failure does not count against the claim.
C1_Memoization == \A k \in DOMAIN depLookups : depLookups[k] <= 1

\* C2: once the entry of a (package, version) holds a concrete dependency
\* list, it holds that same list in every later state.
C2_Persistence ==
  [][\A n \in DOMAIN packages : \A v \in DOMAIN packages[n] :
       packages[n][v].known =>
         /\ n \in DOMAIN packages'
         /\ v \in DOMAIN packages'[n]
         /\ packages'[n][v] = packages[n][v]]_vars

\* C3: external lookups happen at most once per package.  lookups counts,
\* per package key, the discovery calls that returned a result.
C3_OncePerPackage == \A k \in DOMAIN lookups : lookups[k] <= 1

\* C3, amended: an operation makes at most one external discovery call, and
\* none when what it asks for is cached: versions_for on a package that is in
\* the cache, dependencies_for on the root or on an entry that holds a list.
C3_OncePerOperation ==
  /\ last.ncalls <= 1
  /\ (last.op = "versions_for" /\ last.cached) => last.ncalls = 0
  /\ (last.op = "dependencies_for"
        /\ (last.package = Root \/ last.entry = "known")) => last.ncalls = 0

\* a versions_for that found its package in the cache, put there by an
\* earlier discovery, and made no call
C3_Witness ==
  /\ last.op = "versions_for"
  /\ last.cached
  /\ Count(lookups, last.package) = 1
  /\ last.ncalls = 0

\* C4: once a versions_for(P, C) has triggered a discovery that left P
\* unknown, no later versions_for(P, C') makes an external discovery call.
C4_NoRetry ==
  [][(last'.op = "versions_for" /\ last'.package \in absent)
       => last'.ncalls = 0]_vars

\* C5: versions_for(P, C) on a package in the cache returns exactly the
\* cached versions v of P for which C is absent or C.allows_any([v, v]),
\* each once, in strictly descending order.
C5_Filtered ==
  (last.op = "versions_for" /\ last.err = "none"
     /\ last.package \in DOMAIN packages)
  => /\ \A i, j \in 1..Len(last.ret) : i < j => last.ret[i] > last.ret[j]
     /\ Elems(last.ret) =
          {v \in DOMAIN packages[last.package] :
             last.constraint.absent
               \/ allows_any(last.constraint, Range(v, v, TRUE, TRUE))}

\* a versions_for on a cached package, with a constraint, that returned two
\* versions
C5_Witness ==
  /\ last.op = "versions_for"
  /\ last.cached
  /\ ~last.constraint.absent
  /\ Len(last.ret) >= 2

C7_UnknownIsEmpty ==
  (last.op = "versions_for"
     /\ (last.found \/ last.ncalls = 0)
     /\ (last.package \notin DOMAIN packages
           \/ DOMAIN packages[last.package] = {}))
  => (last.err = "none" /\ last.ret = <<>>)

\* a versions_for whose discovery returned and left the package unknown
C7_Witness ==
  /\ last.op = "versions_for"
  /\ last.found
  /\ last.package \notin DOMAIN packages
  /\ last.ret = <<>>

\* C8: dependencies_for(P, V) on a non-root entry that is the "unknown"
\* placeholder makes one external call keyed by "P==V" and returns the list
\* now in the entry; it never returns the placeholder; on an entry that
\* holds a list it makes no call.
C8_Populated ==
  (last.op = "dependencies_for" /\ last.package # Root)
  => /\ last.entry = "unknown"
          => (last.ncalls = 1
                /\ last.spec = NameText(last.package)
                                 \o <<SpecTok("==", last.version)>>)
     /\ last.entry = "known" => last.ncalls = 0
     /\ last.err = "none" => ~last.retNone

\* C9: add with a dependency list on a (name, version) that holds a list
\* fails with the duplicate-version error and leaves the cache as it was.
C9_Duplicate ==
  [][(last'.op = "add" /\ ~last'.deps.isNone /\ last'.entry = "known")
       => (last'.err = "ValueError" /\ packages' = packages)]_vars

\* an add with a dependency list refused on an entry that holds a list
C9_Witness ==
  /\ last.op = "add"
  /\ ~last.deps.isNone
  /\ last.entry = "known"
  /\ last.err = "ValueError"

\* C10: add with a list of well-formed requirement strings on a (name,
\* version) that is the placeholder does not fail, and the entry then holds
\* the dependency of each string, in the order given.
C10_Population ==
  (last.op = "add" /\ ~last.deps.isNone /\ last.entry = "unknown"
     /\ \A i \in 1..Len(last.deps.list) : ReqParse(last.deps.list[i]).ok)
  => /\ last.err = "none"
     /\ packages[last.package][last.version].known
     /\ Len(packages[last.package][last.version].deps) = Len(last.deps.list)
     /\ \A i \in 1..Len(last.deps.list) :
          /\ packages[last.package][last.version].deps[i].name
               = ReqParse(last.deps.list[i]).key
          /\ packages[last.package][last.version].deps[i].pretty_constraint
               = ReqParse(last.deps.list[i]).specs

\* an add that filled a placeholder with two dependencies
C10_Witness ==
  /\ last.op = "add"
  /\ last.entry = "unknown"
  /\ Len(last.deps.list) = 2
  /\ last.err = "none"

\* C11: when the external discovery call fails during versions_for,
\* dependencies_for or root_dep, the operation ends with that failure (no
\* empty result stands in for it) and has made no second discovery call.
C11_FailurePropagates ==
  (last.op \in {"versions_for", "dependencies_for", "root_dep"}
     /\ last.ncalls >= 1 /\ ~last.found)
  => (last.err = "CollaboratorError" /\ last.ncalls = 1)

\* a versions_for that ended with the failure of its discovery call
C11_Witness ==
  /\ last.op = "versions_for"
  /\ last.ncalls = 1
  /\ ~last.found
  /\ last.err = "CollaboratorError"

\* C12: after root_dep(requirement) has returned, the package is in the
\* cache under the name the recorded root Dependency carries, with at least
\* one version, and a versions_for on that name makes no external call.
C12_RootDeclared ==
  (last.op = "root_dep" /\ last.err = "none")
  => /\ root_dependencies # <<>>
     /\ \E name \in {root_dependencies[Len(root_dependencies)].name} :
          /\ name \in DOMAIN packages
          /\ DOMAIN packages[name] # {}
          /\ \A c \in ConstraintInputs, net \in BOOLEAN :
               versions_for(packages, name, c, net).ncalls = 0

\* a root_dep that returned for a requirement whose name is not written as
\* its key
C12_Witness ==
  /\ last.op = "root_dep"
  /\ last.err = "none"
  /\ ReqParse(last.text).name # ReqParse(last.text).key

\* C13: dependencies_for(root, v) returns the root dependency list, which
\* holds the requirements handed to root_dep, in the order of the calls; it
\* makes no external call and leaves the cache as it was.
C13_RootList ==
  [][(last'.op = "dependencies_for" /\ last'.package = Root)
       => /\ last'.err = "none"
          /\ last'.ncalls = 0
          /\ packages' = packages
          /\ last'.ret = root_dependencies'
          /\ Len(last'.ret) = Len(declared')
          /\ \A i \in 1..Len(declared') :
               /\ last'.ret[i].name = ReqParse(declared'[i]).key
               /\ last'.ret[i].pretty_constraint = ReqParse(declared'[i]).specs]_vars

\* a dependencies_for on the root that returned two declared requirements
C13_Witness ==
  /\ last.op = "dependencies_for"
  /\ last.package = Root
  /\ Len(last.ret) = 2
  /\ last.ret[1] # last.ret[2]

\* the same four boundary fields on both sides of the conversion
SameBounds(range, parsed) ==
  /\ range.min = parsed.min
  /\ range.max = parsed.max
  /\ range.include_min = parsed.include_min
  /\ range.include_max = parsed.include_max

\* C14: convert_dependency keeps the boundaries: a single range becomes a
\* Constraint on the dependency's package with a Range of the same min, max,
\* include_min and include_max; a union becomes a Union of one Range per
\* member with that member's bounds; the same input gives the same output
\* and the adapter's state is left as it was.
C14_Boundaries ==
  [][(last'.op = "convert_dependency")
       => \E parsed \in {DependencyConstraint(last'.dependency)},
             out \in {last'.converted} :
            /\ out.package = last'.dependency.name
            /\ parsed.type = "VersionRange"
                 => /\ ~IsUnion(out.constraint)
                    /\ SameBounds(out.constraint, parsed)
            /\ parsed.type = "VersionUnion"
                 => /\ IsUnion(out.constraint)
                    /\ Len(out.constraint.ranges) = Len(parsed.ranges)
                    /\ \A i \in 1..Len(parsed.ranges) :
                         SameBounds(out.constraint.ranges[i], parsed.ranges[i])
            /\ (last.op = "convert_dependency"
                  /\ last.dependency = last'.dependency)
                 => last.converted = out
            /\ packages' = packages
            /\ root_dependencies' = root_dependencies
            /\ root_version' = root_version]_vars

\* a union with an exclusive boundary on both sides has been converted
C14_Witness ==
  /\ last.op = "convert_dependency"
  /\ DependencyConstraint(last.dependency).type = "VersionUnion"
  /\ IsUnion(last.converted.constraint)
  /\ packages # [n \in {} |-> EmptyMap]

\* a single range with one inclusive and one exclusive bound was converted
C14_WitnessRange ==
  /\ last.op = "convert_dependency"
  /\ DependencyConstraint(last.dependency).type = "VersionRange"
  /\ last.converted.constraint.include_min
  /\ ~last.converted.constraint.include_max
  /\ last.converted.constraint.max # 0

\* C15: root_version is the sentinel 0.0.0 in every reachable state, and a
\* dependencies_for on the root package answers without an external
\* discovery call: no discovery call is ever made for the root.
C15_RootSentinel ==
  /\ root_version = VersionParse([num |-> 0, form |-> "full"])
  /\ (last.op = "dependencies_for" /\ last.package = Root)
       => (last.ncalls = 0 /\ last.err = "none")
  /\ last.ncalls > 0 => (last.key # Root /\ ReqParse(last.spec).name # Root)
  /\ Root \notin DOMAIN lookups
  /\ Root \notin DOMAIN packages

\* the root was asked for its dependencies after discovery had run for a
\* declared requirement
C15_Witness ==
  /\ last.op = "dependencies_for"
  /\ last.package = Root
  /\ last.ret # <<>>
  /\ DOMAIN lookups # {}
  /\ nops = MaxOps

\* C16: when versions_for(P, C) triggers a discovery that completes without
\* error, the versions are registered under the cache key P, so P is in the
\* cache when the call returns and a further versions_for(P, ...) makes no
\* external call.
C16_QueriedName ==
  (last.op = "versions_for" /\ last.found /\ last.err = "none")
  => /\ last.package \in DOMAIN packages
     /\ \A c \in ConstraintInputs, net \in BOOLEAN :
          versions_for(packages, last.package, c, net).ncalls = 0

\* C17: when the discovery triggered by root_dep fails, the cache and the
\* root dependency list are what they were before the call.
C17_RootDepAtomic ==
  [][(last'.op = "root_dep" /\ last'.ncalls >= 1 /\ last'.err # "none")
       => (packages' = packages /\ root_dependencies' = root_dependencies)]_vars

\* C18: no operation, returning or raising, removes a package name from the
\* cache or a version from a package's version set.
C18_CacheGrows ==
  [][\A n \in DOMAIN packages :
       /\ n \in DOMAIN packages'
       /\ DOMAIN packages[n] \subseteq DOMAIN packages'[n]]_vars

\* a failed operation and a discovery both acted on a cache that held a
\* package with all its versions
C18_Witness ==
  /\ last.err # "none"
  /\ DOMAIN lookups # {}
  /\ \E n \in DOMAIN packages : Cardinality(DOMAIN packages[n]) = MaxVersion

\* C19: every package name in the cache has at least one registered
\* version, also after an add that failed part-way.
C19_NoEmptyPackage ==
  \A n \in DOMAIN packages : DOMAIN packages[n] # {}

====
